---- MODULE Spec2Model ----
(***************************************************************************)
(* The mixture-model engine of src/GMM.py: the family registry             *)
(* (MixtureFamily, get_mixture_family_from_str, get_model), the two        *)
(* concrete models GmmFull and GmmDiagonal, and their life cycle           *)
(* forward -> optimizer step -> constrain_parameters.                      *)
(*                                                                         *)
(* Five specifications share the variables: Spec (the life cycle of one    *)
(* model), SpecRegistry (one call of the registry or of a constructor),    *)
(* SpecMethods (one method call on a model, `call` keeping the model as it *)
(* was before), SpecHelpers (warp_probs, the random scale factors and the  *)
(* abstract contract of MixtureModel) and SpecSearch (the hyperparameter   *)
(* search of DimRec.train in src/evaluate.py, which constructs the model). *)
(*                                                                         *)
(* Numbers.  Tensor entries are exact numbers on a grid.  torch.rand draws *)
(* r/One for r in 0..MaxRand (the interval [0,1) on a grid of step 1/One). *)
(* The entries of mus, scale_tril and sigmas_diag and the epsilon of       *)
(* constrain_parameters are integers counting steps of 1/Fine,             *)
(* Fine = One*One, so that L @ L.t() + I of GmmFull.__init__ is exact.     *)
(* Covariances (products of two such entries) count steps of 1/Fine^2.     *)
(* A logit v stands for v*ln(2), so that exp(logit) is the exact integer   *)
(* power 2^v.  Floating-point rounding, overflow and NaN are outside the   *)
(* model: the arithmetic is that of the reals on the grid.  The one        *)
(* exception is numpy.corrcoef in make_random_cov_matrix, whose entries    *)
(* carry the direction of their float64 rounding error.                    *)
(***************************************************************************)
EXTENDS Integers, Sequences, FiniteSets, TLC

VARIABLES
    pc,       \* life cycle: the operation the training loop performs next
    model,    \* the model object: its attributes and learnable tensors
    epsilon,  \* the epsilon the caller passes to constrain_parameters
    last,     \* the operation performed last, and what it did
    call,     \* the call made last (function and arguments)
    ret       \* its outcome, a return value or a raised error

vars == <<pc, model, epsilon, last, call, ret>>

(***************************************************************************)
(* Bounds                                                                  *)
(***************************************************************************)
MaxRand == 1
MaxVal == 2
MaxFree == 1
MaxEps == 2
MaxRadius == 2
MaxBatch == 2
MaxLen == 10

One == MaxRand + 1
Fine == One * One
Rand == 0..MaxRand
\* values the optimizer writes to a scale diagonal, and to an unconstrained
\* entry: zero and the two ends of the range
Vals == -MaxVal..MaxVal
FreeVals == {-MaxFree, 0, MaxFree}
\* (num_components, num_dims) of the models built
Shapes == {<<1, 1>>, <<2, 1>>, <<1, 2>>}

(***************************************************************************)
(* Python values                                                           *)
(***************************************************************************)
None == [ty |-> "NoneType"]
PyInt(n) == [ty |-> "int", v |-> n]
PyFloat(n) == [ty |-> "float", v |-> n]
PyStr(s) == [ty |-> "str", s |-> s]
Return(x) == [kind |-> "return", value |-> x]

\* constrain_parameters without its abs_ step
AbsDiscarded(x) == x

Abs(x) == IF x < 0 THEN -x ELSE x
\* Tensor.clamp_min_(lo), out of place and discarded: the tensor is unchanged
ClampMinDiscarded(x, lo) == x
\* Tensor.add_(lo) in place of clamp_min_(lo)
ClampMinAsAdd(x, lo) == x + lo
ClampMin(x, lo) == IF x < lo THEN lo ELSE x

Min(S) == CHOOSE x \in S : \A y \in S : x <= y
Max(S) == CHOOSE x \in S : \A y \in S : y <= x

RECURSIVE ProdTo(_, _)
\* f[1] * ... * f[n]
ProdTo(f, n) == IF n = 0 THEN 1 ELSE f[n] * ProdTo(f, n - 1)

RECURSIVE SumTo(_, _)
\* f[1] + ... + f[n]
SumTo(f, n) == IF n = 0 THEN 0 ELSE f[n] + SumTo(f, n - 1)

\* M @ M.mT of a square matrix
MatMulT(M) ==
    LET n == Len(M) IN
    [i \in 1..n |-> [j \in 1..n |->
        SumTo([k \in 1..n |-> M[i][k] * M[j][k]], n)]]

(***************************************************************************)
(* MixtureFamily and the registry                                          *)
(***************************************************************************)
Member(name, value) == [ty |-> "MixtureFamily", name |-> name, value |-> value]
FULL == Member("FULL", "full")
DIAGONAL == Member("DIAGONAL", "diagonal")
ISOTROPIC == Member("ISOTROPIC", "isotropic")
SHARED_ISOTROPIC == Member("SHARED_ISOTROPIC", "shared_isotropic")
CONSTANT_ == Member("CONSTANT", "constant")
\* the members in definition order, as iterating the Enum yields them
MixtureFamily == <<FULL, DIAGONAL, ISOTROPIC, SHARED_ISOTROPIC, CONSTANT_>>

FAMILY_NAMES == [i \in 1..Len(MixtureFamily) |-> MixtureFamily[i].value]

\* the family names the registry is asked for: the five tags, case variants
\* of them, the empty string and two other strings
FamilyStrings ==
    {"full", "diagonal", "isotropic", "shared_isotropic", "constant",
     "FULL", "Full", "Diagonal", "ISOTROPIC", "CONSTANT", "", "gaussian", "full "}

\* str.lower() on the strings of FamilyStrings
Lower(s) ==
    CASE s = "FULL" -> "full"
      [] s = "Full" -> "full"
      [] s = "Diagonal" -> "diagonal"
      [] s = "ISOTROPIC" -> "isotropic"
      [] s = "CONSTANT" -> "constant"
      [] OTHER -> s

UnknownFamily(family_name) ==
    [kind |-> "raise", exc |-> "ValueError",
     family_name |-> family_name, names |-> FAMILY_NAMES]

\* the lookup comparing family.value == family_name.lower()
lookup_ignoring_case(family_name) ==
    LET hits == {i \in 1..Len(MixtureFamily) :
                    MixtureFamily[i].value = Lower(family_name)} IN
    IF hits # {} THEN Return(MixtureFamily[Min(hits)])
    ELSE UnknownFamily(family_name)

get_mixture_family_from_str(family_name) ==
    LET hits == {i \in 1..Len(MixtureFamily) :
                    MixtureFamily[i].value = family_name} IN
    IF hits # {} THEN Return(MixtureFamily[Min(hits)])
    ELSE UnknownFamily(family_name)

(***************************************************************************)
(* Construction                                                            *)
(***************************************************************************)
DefaultInitRadius == PyFloat(1)

\* MixtureModel.__init__: the attributes and the zero logits
MixtureModel_init(num_components, num_dims, init_radius, init_mus) ==
    [num_components |-> num_components,
     num_dims |-> num_dims,
     init_radius |-> init_radius,
     init_mus |-> init_mus,
     logits |-> [k \in 1..num_components |-> 0]]

\* a value of uniform_(-r, r): -r + u*2r for u in [0,1); the draws modelled
\* are the two ends of the grid, u = 0 and u = MaxRand/One
UniformVals(init_radius) ==
    {init_radius.v * (2 * u - One) * One : u \in {0, MaxRand}}

\* torch.rand(num_components, num_dims).uniform_(-init_radius, init_radius)
UniformMus(num_components, num_dims, init_radius) ==
    [1..num_components -> [1..num_dims -> UniformVals(init_radius)]]

\* init_mus = torch.tensor(self.init_mus) if self.init_mus is not None
\*            else torch.rand(...).uniform_(-init_radius, init_radius)
\* where self is what MixtureModel.__init__ has set
InitMus(base) ==
    IF base.init_mus # None THEN {base.init_mus.v}
    ELSE UniformMus(base.num_components, base.num_dims, base.init_radius)

\* torch.nn.Linear(num_feat, num_dims, bias=False): the sizes must be ints
LinearOk(num_feat) == num_feat.ty = "int" /\ num_feat.v >= 0
LinearError(num_feat) ==
    [kind |-> "raise",
     exc |-> IF num_feat.ty = "int" THEN "RuntimeError" ELSE "TypeError"]
\* Linear.reset_parameters: kaiming_uniform_(weight, a=sqrt(5)) draws every
\* entry uniformly from (-bound, bound), bound = 1/sqrt(in_features); a weight
\* entry counts steps of bound/Fine, and the draws modelled are the two ends
\* of the grid, as for UniformVals
KaimingVals == {(2 * u - One) * One : u \in {0, MaxRand}}
\* the set of outcomes of Linear(in_features, out_features, bias=False): one
\* module per draw of the out_features x in_features weight
Linear(in_features, out_features) ==
    {[in_features |-> in_features, out_features |-> out_features,
      weight |-> w] :
        w \in [1..out_features -> [1..in_features -> KaimingVals]]}

\* torch.tril(torch.rand(num_dims, num_dims)), entries in steps of 1/One
RandTril(num_dims) ==
    {[i \in 1..num_dims |-> [j \in 1..num_dims |->
        IF j <= i THEN f[i][j] ELSE 0]] :
            f \in [1..num_dims -> [1..num_dims -> Rand]]}

\* lower_triangular @ lower_triangular.t() + diagonal_matrix, in steps of 1/Fine
PositiveDefiniteMatrix(L) ==
    LET n == Len(L)
        LLt == MatMulT(L) IN
    [i \in 1..n |-> [j \in 1..n |->
        LLt[i][j] + (IF i = j THEN Fine ELSE 0)]]

\* the set of outcomes of GmmFull(num_components, num_dims, num_feat,
\* init_radius, init_mus): one per draw of the random tensors
GmmFull(num_components, num_dims, num_feat, init_radius, init_mus) ==
    LET base == MixtureModel_init(num_components, num_dims, init_radius, None) IN
    IF ~LinearOk(num_feat) THEN {LinearError(num_feat)}
    ELSE
      {Return([class |-> "GmmFull",
               num_components |-> base.num_components,
               num_dims |-> base.num_dims,
               init_radius |-> base.init_radius,
               init_mus |-> base.init_mus,
               logits |-> base.logits,
               embed |-> e,
               mus |-> m,
               scale_tril |->
                   [k \in 1..num_components |-> PositiveDefiniteMatrix(L)]]) :
          m \in InitMus(base),
          e \in Linear(num_feat.v, num_dims),
          L \in RandTril(num_dims)}

\* the set of outcomes of GmmDiagonal(num_components, num_dims, num_feat,
\* init_radius, init_mus)
GmmDiagonal(num_components, num_dims, num_feat, init_radius, init_mus) ==
    LET base == MixtureModel_init(num_components, num_dims, init_radius, None) IN
    IF ~LinearOk(num_feat) THEN {LinearError(num_feat)}
    ELSE
      {Return([class |-> "GmmDiagonal",
               num_components |-> base.num_components,
               num_dims |-> base.num_dims,
               init_radius |-> base.init_radius,
               init_mus |-> base.init_mus,
               logits |-> base.logits,
               embed |-> e,
               mus |-> m,
               sigmas_diag |->
                   [k \in 1..num_components |->
                       [d \in 1..num_dims |-> s[k][d] * One]]]) :
          m \in InitMus(base),
          e \in Linear(num_feat.v, num_dims),
          s \in [1..num_components -> [1..num_dims -> Rand]]}

(***************************************************************************)
(* Matrices                                                                *)
(***************************************************************************)
Minor(M, r, c) ==
    LET n == Len(M) IN
    [i \in 1..(n - 1) |-> [j \in 1..(n - 1) |->
        M[IF i < r THEN i ELSE i + 1][IF j < c THEN j ELSE j + 1]]]

RECURSIVE Det(_)
\* the determinant, by expansion along the first row
Det(M) ==
    LET n == Len(M) IN
    IF n = 1 THEN M[1][1]
    ELSE SumTo([j \in 1..n |->
                   (IF j % 2 = 1 THEN 1 ELSE -1) * M[1][j] * Det(Minor(M, 1, j))],
               n)

Leading(M, n) == [i \in 1..n |-> [j \in 1..n |-> M[i][j]]]
IsSymmetric(M) == \A i, j \in 1..Len(M) : M[i][j] = M[j][i]
IsLowerTriangular(M) == \A i, j \in 1..Len(M) : j > i => M[i][j] = 0
\* Sylvester's criterion
IsPositiveDefinite(M) ==
    IsSymmetric(M) /\ \A n \in 1..Len(M) : Det(Leading(M, n)) > 0

RECURSIVE SortedSeq(_)
SortedSeq(S) ==
    IF S = {} THEN <<>> ELSE <<Min(S)>> \o SortedSeq(S \ {Min(S)})
Principal(M, I) ==
    LET ix == SortedSeq(I) IN
    [i \in 1..Len(ix) |-> [j \in 1..Len(ix) |-> M[ix[i]][ix[j]]]]
\* a symmetric matrix all of whose principal minors are >= 0
IsPositiveSemidefinite(M) ==
    IsSymmetric(M) /\
    \A I \in (SUBSET (1..Len(M))) \ {{}} : Det(Principal(M, I)) >= 0

(***************************************************************************)
(* Operations of a model                                                   *)
(***************************************************************************)
Components(m) == 1..m.num_components
Dims(m) == 1..m.num_dims

\* logits_to_probs(logits, is_binary=True): the sigmoid of each logit
logits_to_probs_binary(logits) ==
    [k \in 1..Len(logits) |->
        LET lo == Min({logits[k], 0}) IN
        [num |-> 2 ^ (logits[k] - lo),
         den |-> 2 ^ (logits[k] - lo) + 2 ^ (0 - lo)]]

\* logits_to_probs(logits): softmax over the last dimension; the entry k is
\* the fraction num/den = exp(logits[k]) / sum_j exp(logits[j])
logits_to_probs(logits) ==
    LET n == Len(logits)
        lo == Min({logits[k] : k \in 1..n})
        w == [k \in 1..n |-> 2 ^ (logits[k] - lo)] IN
    [k \in 1..n |-> [num |-> w[k], den |-> SumTo(w, n)]]

get_probs(m) == logits_to_probs(m.logits)

\* The tensor a concrete model constrains, as rows of diagonal entries
ScaleDiagonal(m) ==
    IF m.class = "GmmFull"
    THEN [k \in Components(m) |-> [d \in Dims(m) |-> m.scale_tril[k][d][d]]]
    ELSE m.sigmas_diag

\* abs_ and clamp_min_ applied to the whole of every tril, not to its diagonal
GmmFull_constrain_whole(m, eps) ==
    [m EXCEPT !.scale_tril =
        [k \in Components(m) |-> [i \in Dims(m) |-> [j \in Dims(m) |->
            ClampMin(Abs(@[k][i][j]), eps)]]]]

GmmFull_constrain_parameters(m, eps) ==
    [m EXCEPT !.scale_tril =
        [k \in Components(m) |-> [i \in Dims(m) |-> [j \in Dims(m) |->
            IF i = j THEN ClampMin(Abs(@[k][i][j]), eps) ELSE @[k][i][j]]]]]

GmmDiagonal_constrain_parameters(m, eps) ==
    [m EXCEPT !.sigmas_diag =
        [k \in Components(m) |-> [d \in Dims(m) |->
            ClampMin(Abs(@[k][d]), eps)]]]

constrain_parameters(m, eps) ==
    IF m.class = "GmmFull" THEN GmmFull_constrain_parameters(m, eps)
    ELSE GmmDiagonal_constrain_parameters(m, eps)

\* scale_tril @ scale_tril.mT, in steps of 1/Fine^2
GmmFull_get_covariance_matrix(m) ==
    [k \in Components(m) |-> MatMulT(m.scale_tril[k])]

\* torch.diag_embed(sigmas_diag); the entry s/Fine is s*Fine steps of 1/Fine^2
GmmDiagonal_get_covariance_matrix(m) ==
    [k \in Components(m) |-> [i \in Dims(m) |-> [j \in Dims(m) |->
        IF i = j THEN m.sigmas_diag[k][i] * Fine ELSE 0]]]

get_covariance_matrix(m) ==
    IF m.class = "GmmFull" THEN GmmFull_get_covariance_matrix(m)
    ELSE GmmDiagonal_get_covariance_matrix(m)

\* forward builds MultivariateNormal(mus, scale_tril), whose second positional
\* parameter is covariance_matrix, or Independent(Normal(mus, sigmas_diag), 1);
\* the distributions validate their arguments and raise ValueError
ForwardValid(m) ==
    IF m.class = "GmmFull"
    THEN \A k \in Components(m) : IsPositiveDefinite(m.scale_tril[k])
    ELSE \A k \in Components(m) : \A d \in Dims(m) : m.sigmas_diag[k][d] > 0

\* the batches (B, T, F) a caller passes to forward: F is the model's
\* feature dimensionality
BatchShapes(m) ==
    {<<B, T, m.embed.in_features>> : B \in 1..MaxBatch, T \in 1..MaxBatch}

\* what forward(x) raises or returns, x of shape x_shape: self.embed(x)
\* replaces the last dimension by num_dims, or raises RuntimeError when it is
\* not in_features; the distributions raise ValueError on invalid parameters;
\* sample = mixture_model.sample(x.shape[:-1]) has the event dimension
\* num_dims appended, and log_prob(x).mean() is a scalar
ForwardOutcome(m, x_shape) ==
    LET n == Len(x_shape)
        x == [i \in 1..n |-> IF i = n THEN m.num_dims ELSE x_shape[i]] IN
    IF x_shape[n] # m.embed.in_features
    THEN [kind |-> "raise", exc |-> "RuntimeError"]
    ELSE IF ~ForwardValid(m)
    THEN [kind |-> "raise", exc |-> "ValueError"]
    ELSE Return([nll_loss |-> <<>>,
                 sample |-> SubSeq(x, 1, n - 1) \o <<m.num_dims>>])

\* a forward that repairs the scale parameters before it builds the
\* distributions
forward_constraining(m, x_shape) ==
    [self |-> constrain_parameters(m, 1), out |-> ForwardOutcome(m, x_shape)]

\* forward(x): the model object after the call, and what the call raised or
\* returned; GmmFull.forward and GmmDiagonal.forward assign no attribute
forward(m, x_shape) ==
    [self |-> m, out |-> ForwardOutcome(m, x_shape)]

\* the covariance of the components forward builds, in steps of 1/Fine^2:
\* MultivariateNormal(self.mus, self.scale_tril) binds scale_tril to the
\* second parameter, covariance_matrix
GmmFull_forward_covariance(m) ==
    [k \in Components(m) |-> [i \in Dims(m) |-> [j \in Dims(m) |->
        m.scale_tril[k][i][j] * Fine]]]

\* Independent(Normal(self.mus, self.sigmas_diag), 1): sigmas_diag is the
\* standard deviation of each coordinate, its square the variance
GmmDiagonal_forward_covariance(m) ==
    [k \in Components(m) |-> [i \in Dims(m) |-> [j \in Dims(m) |->
        IF i = j THEN m.sigmas_diag[k][i] * m.sigmas_diag[k][i] ELSE 0]]]

forward_covariance(m) ==
    IF m.class = "GmmFull" THEN GmmFull_forward_covariance(m)
    ELSE GmmDiagonal_forward_covariance(m)

\* a learnable tensor as the parameter collections yield it: the attribute
\* of the model it is, and its data
Parameter(m, name) == [name |-> name, data |-> m[name]]

\* torch.nn.Module.parameters(): every learnable tensor of the model
all_parameters(m) ==
    <<Parameter(m, "logits"), [name |-> "embed.weight", data |-> m.embed.weight],
      Parameter(m, "mus"),
      Parameter(m, IF m.class = "GmmFull" THEN "scale_tril" ELSE "sigmas_diag")>>

\* iter([self.logits])
mixture_parameters(m) == <<Parameter(m, "logits")>>

\* iter([self.mus, self.scale_tril])
GmmFull_component_parameters(m) ==
    <<Parameter(m, "mus"), Parameter(m, "scale_tril")>>

\* iter([self.mus, self.sigmas_diag])
GmmDiagonal_component_parameters(m) ==
    <<Parameter(m, "mus"), Parameter(m, "sigmas_diag")>>

component_parameters(m) ==
    IF m.class = "GmmFull" THEN GmmFull_component_parameters(m)
    ELSE GmmDiagonal_component_parameters(m)

(***************************************************************************)
(* The life cycle: construct, then forward -> optimizer step ->            *)
(* constrain_parameters -> forward ...                                     *)
(* The methods are those of src/GMM.py.  The caller that drives them and   *)
(* its optimizer are outside the sources (src/evaluate.py builds its       *)
(* optimizer over another module and never calls constrain_parameters):    *)
(* the cycle and the writes are those the specification prescribes.        *)
(***************************************************************************)
NoCall == [fn |-> "none"]
NoModel == [class |-> "none"]

Init ==
    /\ \E shape \in Shapes :
         \E r \in GmmFull(shape[1], shape[2], PyInt(1), DefaultInitRadius, None)
                  \cup GmmDiagonal(shape[1], shape[2], PyInt(1),
                                   DefaultInitRadius, None) :
            model = r.value
    /\ epsilon \in 1..MaxEps
    /\ pc = "forward"
    /\ last = [op |-> "init"]
    /\ call = NoCall
    /\ ret = NoCall

\* model.forward(x): no attribute is assigned; ValueError leaves the loop
Forward ==
    /\ pc = "forward"
    /\ \E x_shape \in BatchShapes(model) :
         LET f == forward(model, x_shape) IN
         /\ model' = f.self
         /\ pc' = IF f.out.kind = "return" THEN "step" ELSE "raised"
    /\ last' = [op |-> "forward"]
    /\ UNCHANGED <<epsilon, call, ret>>

\* the values an optimizer write gives an entry of mus
MusVals(m) == UniformVals(m.init_radius)

\* the values an optimizer write gives an entry of the embedding weight: the
\* grid of its construction
EmbedVals == KaimingVals

\* an optimizer write to an entry of the embedding weight
WrittenEmbed(m) ==
    {[m EXCEPT !.embed.weight[i][j] = v] :
        i \in 1..m.embed.out_features, j \in 1..m.embed.in_features,
        v \in EmbedVals}

\* A step of an optimizer built over model.parameters() writes every entry
\* of every learnable tensor in place: logits, mus, the scale and the
\* embedding weight. Each write of an entry is one step of the model, and a
\* step of the optimizer is a sequence of them.
Written(m) ==
    WrittenEmbed(m) \cup
    {[m EXCEPT !.logits[k] = v] : k \in Components(m), v \in FreeVals}
    \cup {[m EXCEPT !.mus[k][d] = v] :
            k \in Components(m), d \in Dims(m), v \in MusVals(m)}
    \cup (IF m.class = "GmmFull"
          THEN {[m EXCEPT !.scale_tril[k][d][d] = v] :
                    k \in Components(m), d \in Dims(m), v \in Vals}
               \cup {[m EXCEPT !.scale_tril[k][ij[1]][ij[2]] = v] :
                    k \in Components(m),
                    ij \in {p \in Dims(m) \X Dims(m) : p[1] # p[2]},
                    v \in FreeVals}
          ELSE {[m EXCEPT !.sigmas_diag[k][d] = v] :
                    k \in Components(m), d \in Dims(m), v \in Vals})

OptimizerWrite ==
    /\ pc \in {"step", "constrain"}
    /\ model' \in Written(model)
    /\ pc' = "constrain"
    /\ last' = [op |-> "write"]
    /\ UNCHANGED <<epsilon, call, ret>>

\* model.constrain_parameters(epsilon) after the optimizer step
Constrain ==
    /\ pc = "constrain"
    /\ model' = constrain_parameters(model, epsilon)
    /\ pc' = "forward"
    /\ last' = [op |-> "constrain", repaired |-> model' # model]
    /\ UNCHANGED <<epsilon, call, ret>>

\* model.constrain_parameters(epsilon) called again, in succession
ConstrainAgain ==
    /\ pc = "forward"
    /\ last.op \in {"constrain", "constrain_again"}
    /\ model' = constrain_parameters(model, epsilon)
    /\ last' = [last EXCEPT !.op = "constrain_again"]
    /\ UNCHANGED <<pc, epsilon, call, ret>>

Next == Forward \/ OptimizerWrite \/ Constrain \/ ConstrainAgain

Spec == Init /\ [][Next]_vars

(***************************************************************************)
(* The registry: calls of get_mixture_family_from_str and get_model        *)
(***************************************************************************)
\* get_model without its final raise: every other family built as DIAGONAL
get_model_falling_back(mixture_family, num_components, num_dims, radius) ==
    IF mixture_family = FULL
    THEN GmmFull(num_components, num_dims, radius, DefaultInitRadius, None)
    ELSE GmmDiagonal(num_components, num_dims, radius, DefaultInitRadius, None)

\* the set of outcomes of get_model(mixture_family, num_components, num_dims,
\* radius); radius is the third positional argument of the constructors,
\* which is num_feat, and init_radius and init_mus take their defaults
get_model(mixture_family, num_components, num_dims, radius) ==
    IF mixture_family = FULL
    THEN GmmFull(num_components, num_dims, radius, DefaultInitRadius, None)
    ELSE IF mixture_family = DIAGONAL
    THEN GmmDiagonal(num_components, num_dims, radius, DefaultInitRadius, None)
    ELSE IF mixture_family.ty = "MixtureFamily"
    THEN {[kind |-> "raise", exc |-> "NotImplementedError",
           family |-> mixture_family.value]}
    \* mixture_family.value of a value that is no Enum member
    ELSE {[kind |-> "raise", exc |-> "AttributeError"]}

\* what a caller passes as mixture_family: a member, or a family name
FamilyArgs ==
    {MixtureFamily[i] : i \in 1..Len(MixtureFamily)}
    \cup {PyStr(s) : s \in FamilyStrings}

\* what a caller passes as radius: a positive whole number, int or float
RadiusArgs ==
    {PyInt(n) : n \in 1..MaxRadius} \cup {PyFloat(n) : n \in 1..MaxRadius}

\* before any call: no model exists, the life-cycle variables are unused;
\* the functions keep no state between calls, so a behaviour is one call
RegistryInit ==
    /\ pc = "registry"
    /\ model = NoModel
    /\ epsilon = MaxEps
    /\ last = [op |-> "none"]
    /\ call = NoCall
    /\ ret = NoCall

CallLookup ==
    /\ call = NoCall
    /\ \E family_name \in FamilyStrings :
         /\ call' = [fn |-> "get_mixture_family_from_str",
                     family_name |-> family_name]
         /\ ret' = get_mixture_family_from_str(family_name)
    /\ UNCHANGED <<pc, model, epsilon, last>>

CallGetModel ==
    /\ call = NoCall
    /\ \E mixture_family \in FamilyArgs, shape \in Shapes, radius \in RadiusArgs :
         /\ call' = [fn |-> "get_model", mixture_family |-> mixture_family,
                     num_components |-> shape[1], num_dims |-> shape[2],
                     radius |-> radius]
         /\ ret' \in get_model(mixture_family, shape[1], shape[2], radius)
    /\ UNCHANGED <<pc, model, epsilon, last>>

\* the entries of the means a caller supplies: 0.0, and a value outside
\* [-init_radius, init_radius] for every init_radius a caller passes
SuppliedVals == {0, (MaxRadius + 1) * Fine}

\* what a caller passes as init_mus: nothing, or a list of num_components
\* rows of num_dims numbers
InitMusArgs(num_components, num_dims) ==
    {None} \cup {[ty |-> "list", v |-> m] :
                    m \in [1..num_components -> [1..num_dims -> SuppliedVals]]}

\* a direct call of a constructor, GmmFull(...) or GmmDiagonal(...)
CallConstructor ==
    /\ call = NoCall
    /\ \E class \in {"GmmFull", "GmmDiagonal"}, shape \in Shapes,
          radius \in 1..MaxRadius :
         \E init_mus \in InitMusArgs(shape[1], shape[2]) :
            /\ call' = [fn |-> class, num_components |-> shape[1],
                        num_dims |-> shape[2], num_feat |-> PyInt(1),
                        init_radius |-> PyFloat(radius), init_mus |-> init_mus]
            /\ ret' \in IF class = "GmmFull"
                        THEN GmmFull(shape[1], shape[2], PyInt(1),
                                     PyFloat(radius), init_mus)
                        ELSE GmmDiagonal(shape[1], shape[2], PyInt(1),
                                         PyFloat(radius), init_mus)
    /\ UNCHANGED <<pc, model, epsilon, last>>

RegistryNext == CallLookup \/ CallGetModel \/ CallConstructor

SpecRegistry == RegistryInit /\ [][RegistryNext]_vars

(***************************************************************************)
(* Method calls: a model is constructed, the optimizer may write one entry *)
(* of a learnable tensor, and one method is called on the model; `call`    *)
(* keeps the model as it was before the call                               *)
(***************************************************************************)
MethodsInit ==
    /\ \E shape \in Shapes :
         \E r \in GmmFull(shape[1], shape[2], PyInt(1), DefaultInitRadius, None)
                  \cup GmmDiagonal(shape[1], shape[2], PyInt(1),
                                   DefaultInitRadius, None) :
            model = r.value
    /\ epsilon = MaxEps
    /\ pc = "methods"
    /\ last = [op |-> "init"]
    /\ call = NoCall
    /\ ret = NoCall

MethodsWrite ==
    /\ pc = "methods"
    /\ last.op = "init"
    /\ model' \in Written(model)
    /\ last' = [op |-> "write"]
    /\ UNCHANGED <<pc, epsilon, call, ret>>

\* nll_loss, sample = model.forward(x)
CallForward ==
    /\ pc = "methods"
    /\ \E x_shape \in BatchShapes(model) :
         LET f == forward(model, x_shape) IN
         /\ call' = [fn |-> "forward", self |-> model, x_shape |-> x_shape]
         /\ model' = f.self
         /\ ret' = f.out
    /\ pc' = "called"
    /\ last' = [op |-> "forward"]
    /\ UNCHANGED epsilon

\* model.constrain_parameters(epsilon)
CallConstrainParameters ==
    /\ pc = "methods"
    /\ \E eps \in 1..MaxEps :
         /\ call' = [fn |-> "constrain_parameters", self |-> model,
                     epsilon |-> eps]
         /\ model' = constrain_parameters(model, eps)
         /\ epsilon' = eps
    /\ ret' = Return(None)
    /\ pc' = "called"
    /\ last' = [op |-> "constrain"]

MethodsNext == MethodsWrite \/ CallForward \/ CallConstrainParameters

SpecMethods == MethodsInit /\ [][MethodsNext]_vars

(***************************************************************************)
(* The abstract contract: subclasses of MixtureModel                       *)
(***************************************************************************)
\* the methods of MixtureModel decorated with @abstractmethod
AbstractMethods ==
    {"forward", "constrain_parameters", "component_parameters",
     "get_covariance_matrix"}

\* instantiation of a class that has no ABCMeta among its metaclasses
InstantiateUnchecked(implemented, num_components, num_dims) ==
    Return([class |-> "Subclass", implemented |-> implemented]
           @@ MixtureModel_init(num_components, num_dims, DefaultInitRadius,
                                None))

\* Subclass(num_components, num_dims) for `class Subclass(MixtureModel)` that
\* defines the methods in `implemented` and passes its arguments on to
\* MixtureModel.__init__: MixtureModel derives from ABC, and a class with
\* abstract methods left is not instantiated
Instantiate(implemented, num_components, num_dims) ==
    LET missing == AbstractMethods \ implemented IN
    IF missing # {}
    THEN [kind |-> "raise", exc |-> "TypeError", missing |-> missing]
    ELSE Return([class |-> "Subclass", implemented |-> implemented]
                @@ MixtureModel_init(num_components, num_dims,
                                     DefaultInitRadius, None))

\* object.op(...): the method of the subclass, or the inherited body
\* `raise NotImplementedError()`
Invoke(object, op) ==
    IF op \in object.implemented THEN [kind |-> "return"]
    ELSE [kind |-> "raise", exc |-> "NotImplementedError"]

NotReached == [kind |-> "not reached"]

(***************************************************************************)
(* warp_probs, in exact arithmetic. Primes lists the primes up to MaxLen,  *)
(* so that every whole number up to MaxLen is a product of them. A         *)
(* positive real of the form 2^(a/2) * 3^(b/2) * 5^(c/2) * ... is the      *)
(* record of kind "pos" with e = <<a, b, c, ...>>, one half-exponent for   *)
(* each prime; its logarithm is (a*ln 2 + b*ln 3 + c*ln 5 + ...)/2, which  *)
(* the vector e stands for. 0 and inf are records of their own, and a      *)
(* number with a prime factor beyond the list is the record OffGrid, never *)
(* a number of the grid.                                                   *)
(***************************************************************************)
Primes ==
    SortedSeq({p \in 2..MaxLen : \A d \in 2..(p - 1) : p % d # 0})
NumPrimes == Len(Primes)
Pos(e) == [kind |-> "pos", e |-> e]
Zero == [kind |-> "zero"]
Inf == [kind |-> "inf"]
NaN == [kind |-> "nan"]
\* a positive real that the grid does not represent
OffGrid == [kind |-> "other"]
\* the logarithm of 1, and the logarithm of a real the grid does not
\* represent
ZeroLog == [i \in 1..NumPrimes |-> 0]
NoLog == <<>>
OnGrid(v) == Len(v) = NumPrimes

RECURSIVE Multiplicity(_, _)
\* how often the prime p divides n
Multiplicity(n, p) == IF n % p = 0 THEN 1 + Multiplicity(n \div p, p) ELSE 0

\* n is a product of the primes listed
Factors(n) ==
    n = ProdTo([i \in 1..NumPrimes |-> Primes[i] ^ Multiplicity(n, Primes[i])],
               NumPrimes)

\* n^(h/2) for a whole number n >= 1
RootPower(n, h) ==
    IF Factors(n)
    THEN Pos([i \in 1..NumPrimes |-> h * Multiplicity(n, Primes[i])])
    ELSE OffGrid
\* the whole number n, and the fraction num/den
RealOfInt(n) == RootPower(n, 2)
Frac(num, den) ==
    IF Factors(num) /\ Factors(den)
    THEN Pos([i \in 1..NumPrimes |->
                 RealOfInt(num).e[i] - RealOfInt(den).e[i]])
    ELSE OffGrid

\* -1, 0, 1 as the logarithm v is negative, zero, positive: the product of
\* the primes with positive entries against that of the others
LogSign(v) ==
    LET up == ProdTo([i \in 1..NumPrimes |-> Primes[i] ^ Max({v[i], 0})],
                     NumPrimes)
        down == ProdTo([i \in 1..NumPrimes |-> Primes[i] ^ Max({-v[i], 0})],
                       NumPrimes) IN
    IF up > down THEN 1 ELSE IF up < down THEN -1 ELSE 0

\* numpy.log(x) of a positive x, and a quotient of two logarithms
Log(x) == IF x.kind = "pos" THEN x.e ELSE NoLog
LogQuotient(num, den) == [num |-> num, den |-> den]
QuotientSign(alpha) == LogSign(alpha.num) * LogSign(alpha.den)

\* exp(alpha * v) for a logarithm v and a quotient alpha of two logarithms:
\* the value of a power that is not a number of the grid
Pow(v, alpha) == [kind |-> "pow", log |-> v, alpha |-> alpha]

\* a * x / b for a vector x of half-exponents, b # 0, when the division is
\* exact
Divides(a, b, x) ==
    LET s == IF b < 0 THEN -1 ELSE 1 IN
    \A i \in 1..NumPrimes : (s * a * x[i]) % (s * b) = 0
Scaled(a, b, x) ==
    LET s == IF b < 0 THEN -1 ELSE 1 IN
    Pos([i \in 1..NumPrimes |-> (s * a * x[i]) \div (s * b)])

\* the vectors u and w are proportional
Parallel(u, w) == \A i, k \in 1..NumPrimes : u[i] * w[k] = u[k] * w[i]

IsZeroLog(v) == v = ZeroLog

\* -1, 0, 1 as p is below, at, above 1
Magnitude(p) ==
    IF p.kind = "zero" THEN -1
    ELSE IF p.kind = "inf" THEN 1
    ELSE LogSign(p.e)

\* p ** alpha for p >= 0, alpha a quotient of two logarithms, by the rules of
\* floating-point pow.
\*   alpha.den = 0: the quotient is nan (0/0), -inf or +inf by the sign of
\*     alpha.num; 1 ** alpha is 1, p ** nan is nan, and p ** (+-inf) is 0 or
\*     inf as p is below or above 1.
\*   alpha = 0: p ** 0 is 1, also for p = 0.
\*   otherwise 0 ** alpha is 0 or inf by the sign of alpha, and for p > 0 the
\*     result is exp(alpha * log p): on the grid with logarithm q * alpha.num
\*     when log p = q * alpha.den, and with logarithm r * log p when
\*     alpha.num = r * alpha.den, provided the half-exponents are whole;
\*     in every other case it is kept as the power it is.
\* When p, alpha.num or alpha.den is off the grid, so is the result.
Power(p, alpha) ==
    IF ~OnGrid(alpha.num) \/ ~OnGrid(alpha.den) \/ p.kind = "other"
    THEN OffGrid
    ELSE IF IsZeroLog(alpha.den)
    THEN (IF Magnitude(p) = 0 THEN Pos(ZeroLog)
          ELSE IF IsZeroLog(alpha.num) THEN NaN
          ELSE IF LogSign(alpha.num) * Magnitude(p) > 0 THEN Inf ELSE Zero)
    ELSE IF IsZeroLog(alpha.num) THEN Pos(ZeroLog)
    ELSE IF p.kind \in {"zero", "inf"}
    THEN (IF QuotientSign(alpha) * Magnitude(p) > 0 THEN Inf ELSE Zero)
    ELSE LET v == Log(p)
             j == CHOOSE i \in 1..NumPrimes : alpha.den[i] # 0 IN
         IF IsZeroLog(v) THEN Pos(ZeroLog)
         ELSE IF Parallel(v, alpha.den)
                 /\ Divides(v[j], alpha.den[j], alpha.num)
         THEN Scaled(v[j], alpha.den[j], alpha.num)
         ELSE IF Parallel(alpha.num, alpha.den)
                 /\ Divides(alpha.num[j], alpha.den[j], v)
         THEN Scaled(alpha.num[j], alpha.den[j], v)
         ELSE Pow(v, alpha)

\* warp_probs with the quotient of alpha upside down
warp_probs_inverted(probs, target_value) ==
    LET alpha == LogQuotient(Log(Frac(1, Len(probs))), Log(target_value)) IN
    [i \in 1..Len(probs) |-> Power(probs[i], alpha)]

\* warp_probs with log(len(probs)) for log(1 / len(probs))
warp_probs_log_len(probs, target_value) ==
    LET alpha == LogQuotient(Log(target_value), Log(RealOfInt(Len(probs)))) IN
    [i \in 1..Len(probs) |-> Power(probs[i], alpha)]

\* alpha = numpy.log(target_value) / numpy.log(1 / len(probs))
\* return probs ** alpha
warp_probs(probs, target_value) ==
    LET alpha == LogQuotient(Log(target_value), Log(Frac(1, Len(probs)))) IN
    [i \in 1..Len(probs) |-> Power(probs[i], alpha)]

\* the probability vectors passed, of every length n from 2 to MaxLen:
\* uniform, one-hot, (1/2, 1/2, 0, ...), (1/2, 1/4, 1/4, 0, ...) and
\* (1/2, 1/3, 1/6, 0, ...)
Uniform(n) == [i \in 1..n |-> RootPower(n, -2)]
OneHot(n) == [i \in 1..n |-> IF i = 1 THEN RootPower(n, 0) ELSE Zero]
Padded(head, n) == [i \in 1..n |-> IF i <= Len(head) THEN head[i] ELSE Zero]
Lengths == 2..MaxLen
ProbVectors ==
    {Uniform(n) : n \in Lengths} \cup {OneHot(n) : n \in Lengths}
    \cup {Padded(<<Frac(1, 2), Frac(1, 2)>>, n) : n \in Lengths}
    \cup {Padded(<<Frac(1, 2), Frac(1, 4), Frac(1, 4)>>, n) :
              n \in Lengths \ {2}}
    \cup {Padded(<<Frac(1, 2), Frac(1, 3), Frac(1, 6)>>, n) :
              n \in Lengths \ {2}}

\* the target values passed: 0.5, 0.75, 0.9, 1, 1.5, 2, and for a vector of
\* length n also 1/n and n
TargetValues(n) ==
    {Frac(1, 2), Frac(3, 4), Frac(9, 10), Frac(1, 1), Frac(3, 2), Frac(2, 1),
     Frac(1, n), Frac(n, 1)}

CallWarpProbs ==
    /\ call = NoCall
    /\ \E probs \in ProbVectors :
         \E target_value \in TargetValues(Len(probs)) :
           /\ call' = [fn |-> "warp_probs", probs |-> probs,
                       target_value |-> target_value]
           /\ ret' = Return(warp_probs(probs, target_value))
    /\ UNCHANGED <<pc, model, epsilon, last>>

(***************************************************************************)
(* Random scale factors: make_random_cov_matrix, make_random_scale_trils   *)
(***************************************************************************)
\* A matrix entry is [num, den2, err]: the real num / sqrt(den2) as computed
\* in float64, err telling whether the float64 is the one nearest to the real
\* ("exact") or lies some units in the last place below or above it. How many
\* units depends on the order in which the build sums and divides; it is a
\* small multiple of the number of operations, far below the 2^28 units that
\* are half a unit of float32.
Errors == {"below", "exact", "above"}
Exact(n) == [num |-> n, den2 |-> 1, err |-> "exact"]

\* rows numpy.random.normal(0, 1, ...) draws, on a grid of whole standard
\* deviations: one observation at `hi`, one at -1, the others 0. No row is
\* constant, as no row of continuous draws is.
NormalRows(observations_per_variable) ==
    {[j \in 1..observations_per_variable |->
         IF j = p[1] THEN p[3] ELSE IF j = p[2] THEN -1 ELSE 0] :
     p \in {q \in (1..(MaxRand + 2)) \X (1..(MaxRand + 2)) \X (1..MaxVal) :
            q[1] # q[2]}}

\* a row less its mean, times n to stay whole
Centred(row) ==
    LET n == Len(row)
        total == SumTo(row, n)
    IN [j \in 1..n |-> n * row[j] - total]

\* numpy.cov of the rows, times n * n * (n - 1)
Cov(observations) ==
    LET d == Len(observations)
        n == Len(observations[1])
    IN [i \in 1..d |-> [k \in 1..d |->
          LET u == Centred(observations[i])
              v == Centred(observations[k])
          IN SumTo([j \in 1..n |-> u[j] * v[j]], n)]]

\* numpy.clip(c, -1, 1) of an entry
Clip(e) ==
    IF e.num * e.num = e.den2 /\ ((e.num > 0 /\ e.err = "above")
                                  \/ (e.num < 0 /\ e.err = "below"))
    THEN [e EXCEPT !.err = "exact"] ELSE e

\* c[i][k] / stddev[i] / stddev[k] in exact arithmetic
Correlations(c) ==
    [i \in 1..Len(c) |-> [k \in 1..Len(c) |->
        [num |-> c[i][k], den2 |-> c[i][i] * c[k][k], err |-> "exact"]]]

\* the float64 sums, square roots and divisions leave the rounding errors
\* err, then the clip
Rounded(m, err) ==
    [i \in 1..Len(m) |-> [k \in 1..Len(m) |->
        Clip([m[i][k] EXCEPT !.err = err[i][k]])]]

\* numpy.corrcoef
corrcoef(observations, err) ==
    Rounded(Correlations(Cov(observations)), err)

\* the rounding errors of a d x d float64 result
Roundings(d) == [1..d -> [1..d -> Errors]]

DefaultObservations == 10

make_random_cov_matrix(num_dims, observations_per_variable) ==
    IF num_dims = 1 THEN {<<<<Exact(1)>>>>}
    ELSE LET exact == {corrcoef(observations,
                                [i \in 1..num_dims |->
                                   [k \in 1..num_dims |-> "exact"]]) :
                       observations \in
                           [1..num_dims ->
                              NormalRows(observations_per_variable)]}
         IN {Rounded(m, err) : m \in exact, err \in Roundings(num_dims)}

\* numpy.triu in place of numpy.tril
Triu(m) ==
    [i \in 1..Len(m) |-> [j \in 1..Len(m) |->
        IF j < i THEN Exact(0) ELSE m[i][j]]]

\* numpy.tril: the entries above the diagonal become 0
Tril(m) ==
    [i \in 1..Len(m) |-> [j \in 1..Len(m) |->
        IF j > i THEN Exact(0) ELSE m[i][j]]]

\* torch.tensor(..., dtype=torch.float32) of an entry: the float32 nearest to
\* the float64, which is the float32 nearest to the real as a float32 unit is
\* 2^29 float64 units; err then tells of the float32
Float32(e) == [e EXCEPT !.err = "exact"]

make_random_scale_trils(num_sigmas, num_dims) ==
    LET trils == {[i \in 1..num_dims |-> [j \in 1..num_dims |->
                     Float32(Tril(m)[i][j])]] :
                  m \in make_random_cov_matrix(num_dims, DefaultObservations)}
    IN [1..num_sigmas -> trils]

\* the sizes asked for: the scalar case and the smallest correlated one
DimArgs == {1, 2}

CallMakeRandomCovMatrix ==
    /\ call = NoCall
    /\ \E num_dims \in DimArgs :
         /\ call' = [fn |-> "make_random_cov_matrix", num_dims |-> num_dims]
         /\ \E m \in make_random_cov_matrix(num_dims, DefaultObservations) :
              ret' = Return(m)
    /\ UNCHANGED <<pc, model, epsilon, last>>

CallMakeRandomScaleTrils ==
    /\ call = NoCall
    /\ \E num_sigmas \in 0..MaxVal, num_dims \in DimArgs :
         /\ call' = [fn |-> "make_random_scale_trils",
                     num_sigmas |-> num_sigmas, num_dims |-> num_dims]
         /\ \E t \in make_random_scale_trils(num_sigmas, num_dims) :
              ret' = Return(t)
    /\ UNCHANGED <<pc, model, epsilon, last>>

HelpersInit ==
    /\ pc = "helpers"
    /\ model = NoModel
    /\ epsilon = MaxEps
    /\ last = [op |-> "none"]
    /\ call = NoCall
    /\ ret = NoCall

\* a subclass is defined and instantiated, and one operation is invoked on
\* the object if there is one
CallSubclass ==
    /\ call = NoCall
    /\ \E implemented \in SUBSET AbstractMethods, shape \in Shapes,
          op \in AbstractMethods :
         LET made == Instantiate(implemented, shape[1], shape[2]) IN
         /\ call' = [fn |-> "Subclass", implemented |-> implemented,
                     num_components |-> shape[1], num_dims |-> shape[2],
                     invoke |-> op]
         /\ ret' = [construct |-> made,
                    invoke |-> IF made.kind = "return"
                               THEN Invoke(made.value, op) ELSE NotReached]
    /\ UNCHANGED <<pc, model, epsilon, last>>

HelpersNext ==
    \/ CallSubclass
    \/ CallWarpProbs
    \/ CallMakeRandomCovMatrix
    \/ CallMakeRandomScaleTrils

SpecHelpers == HelpersInit /\ [][HelpersNext]_vars

(***************************************************************************)
(* Hyperparameter search: DimRec.train under study.optimize                *)
(***************************************************************************)
\* the grids of DimRec.train; gamma counts hundredths
knn_list == <<20, 10, 5>>
d_model_list == <<16, 32, 64, 128, 512>>
num_layers_list == <<1, 3>>
gamma == <<10, 1>>

\* the configurations in the order the four nested loops visit them:
\* knn outermost, then d_model, num_layers and gm innermost
Configurations ==
    LET nd == Len(d_model_list)
        nl == Len(num_layers_list)
        ng == Len(gamma)
    IN [i \in 1..(Len(knn_list) * nd * nl * ng) |->
          [knn |-> knn_list[((i - 1) \div (nd * nl * ng)) + 1],
           d_model |-> d_model_list[(((i - 1) \div (nl * ng)) % nd) + 1],
           num_layers |-> num_layers_list[(((i - 1) \div ng) % nl) + 1],
           gm |-> gamma[((i - 1) % ng) + 1]]]

Raise(exc) == [kind |-> "raise", exc |-> exc]

\* the parameters of GmmDiagonal.__init__ after self, and those without a
\* default
GmmDiagonalParameters ==
    {"num_components", "num_dims", "num_feat", "init_radius", "init_mus"}
GmmDiagonalRequired == {"num_components", "num_dims", "num_feat"}

\* GmmDiagonal(**kwargs): Python binds the keywords to the parameters of
\* __init__ before the body runs; a keyword that names no parameter, or a
\* required parameter left unbound, raises TypeError
GmmDiagonal_keywords(kwargs) ==
    IF ~(DOMAIN kwargs \subseteq GmmDiagonalParameters)
       \/ ~(GmmDiagonalRequired \subseteq DOMAIN kwargs)
    THEN {Raise("TypeError")}
    ELSE GmmDiagonal(kwargs.num_components, kwargs.num_dims, kwargs.num_feat,
                     IF "init_radius" \in DOMAIN kwargs
                     THEN kwargs.init_radius ELSE DefaultInitRadius,
                     IF "init_mus" \in DOMAIN kwargs
                     THEN kwargs.init_mus ELSE None)

\* `sub in s` of two Python strings: sub occurs in s
Contains(s, sub) ==
    \E i \in 1..(Len(s) - Len(sub) + 1) :
        SubSeq(s, i, i + Len(sub) - 1) = sub

\* self.model_name = "{}_{}_{}".format(args.model_name, args.exp_name,
\* self.pred_len); pred_len is given by its decimal digits
FormatModelName(model_name, exp_name, pred_len) ==
    model_name \o "_" \o exp_name \o "_" \o pred_len

\* the values --model_name is given: the default, and names that reach each
\* branch of the construction
ModelNames == {"ACAT", "som_vae", "gmm", "som_vae_gmm"}
ExpNames == {"synthetic", "watershed"}

\* the construction of the clustering model for one configuration: by the
\* name a SOMVAE, a GmmDiagonal called with the keywords num_feat, num_dims,
\* num_components and device, or a DeepClustering. SOMVAE and DeepClustering
\* are torch modules defined outside these sources: their construction
\* returns, or fails with the RuntimeError torch raises
ClusteringModel(self, config) ==
    IF Contains(self.model_name, "som_vae")
    THEN {Return([class |-> "SOMVAE"]), Raise("RuntimeError")}
    ELSE IF Contains(self.model_name, "gmm")
    THEN GmmDiagonal_keywords([num_feat |-> PyInt(self.input_size),
                               num_dims |-> config.d_model,
                               num_components |-> self.n_clusters,
                               device |-> self.device])
    ELSE {Return([class |-> "DeepClustering"]), Raise("RuntimeError")}

\* the rest of the try block for a constructed model, the checkpoint that
\* training saved being on disk: torch.load, load_state_dict (RuntimeError
\* when the keys or shapes differ) and the training epochs (torch's
\* OutOfMemoryError when the device runs out of memory)
UseModel(clustering_model) ==
    {Return(None), Raise("RuntimeError"), Raise("OutOfMemoryError")}

\* the body of the try block for one configuration
TryBody(self, config) ==
    UNION {IF c.kind = "raise" THEN {c} ELSE UseModel(c.value) :
           c \in ClusteringModel(self, config)}

\* RuntimeError and the classes derived from it: Python's, and torch's
\* OutOfMemoryError
RuntimeErrorSubclasses ==
    {"RuntimeError", "NotImplementedError", "RecursionError",
     "OutOfMemoryError"}

\* `except RuntimeError: pass` catches an instance of RuntimeError or of a
\* class derived from it
Handled(outcome) ==
    outcome.kind = "raise" /\ outcome.exc \in RuntimeErrorSubclasses

\* the DimRec object train is called on: its model_name attribute, the
\* sizes of the data and the device
SearchArgs ==
    [fn : {"train"},
     model_name : {FormatModelName(m, e, "24") :
                     m \in ModelNames, e \in ExpNames},
     n_clusters : 1..MaxVal, input_size : 1..MaxVal, device : {"cpu"}]

SearchInit ==
    /\ pc = "search"
    /\ model = NoModel
    /\ epsilon = MaxEps
    /\ call \in SearchArgs
    /\ last = [op |-> "train", i |-> 1, outcome |-> NoCall]
    /\ ret = NoCall

\* one pass of the innermost loop body: the try block runs; what it returns
\* or a RuntimeError it raises leads to the next configuration, any other
\* exception leaves train and objective
TryConfiguration ==
    /\ pc = "search"
    /\ last.i <= Len(Configurations)
    /\ \E o \in TryBody(call, Configurations[last.i]) :
         IF o.kind = "return" \/ Handled(o)
         THEN /\ last' = [op |-> "try", i |-> last.i + 1, outcome |-> o]
              /\ UNCHANGED <<pc, ret>>
         ELSE /\ last' = [op |-> "try", i |-> last.i, outcome |-> o]
              /\ pc' = "raised"
              /\ ret' = o
    /\ UNCHANGED <<model, epsilon, call>>

\* the loops are exhausted: train returns None, and so does objective
TrainReturns ==
    /\ pc = "search"
    /\ last.i > Len(Configurations)
    /\ pc' = "returned"
    /\ ret' = Return(None)
    /\ UNCHANGED <<model, epsilon, last, call>>

\* study.optimize(self.objective, ...) is given no `catch`: an exception
\* that leaves objective leaves optimize, and the search is over
OptimizeRaises ==
    /\ pc = "raised"
    /\ pc' = "terminated"
    /\ UNCHANGED <<model, epsilon, last, call, ret>>

SearchNext == TryConfiguration \/ TrainReturns \/ OptimizeRaises

SpecSearch == SearchInit /\ [][SearchNext]_vars

(***************************************************************************)
(* Properties                                                              *)
(***************************************************************************)
Constrained == last.op \in {"constrain", "constrain_again"}

ScalePositive(m, eps) ==
    \A k \in Components(m) : \A d \in Dims(m) :
        ScaleDiagonal(m)[k][d] > 0 /\ ScaleDiagonal(m)[k][d] >= eps

\* the five tags of the specification
FiveTags == {"full", "diagonal", "isotropic", "shared_isotropic", "constant"}

ListsFiveTags(names) ==
    Len(names) = 5 /\ {names[i] : i \in 1..Len(names)} = FiveTags

\* C1: immediately after constrain_parameters(epsilon), epsilon > 0, every
\* diagonal entry of every scale_tril component (GmmFull) and every entry of
\* sigmas_diag (GmmDiagonal) is strictly positive and >= epsilon.
C1_ScalePositiveAfterConstrain ==
    Constrained => epsilon > 0 /\ ScalePositive(model, epsilon)

\* a constrain_parameters call that repaired an entry (now equal to epsilon)
C1_Witness ==
    /\ last.op = "constrain"
    /\ last.repaired
    /\ \E k \in Components(model) : \E d \in Dims(model) :
          ScaleDiagonal(model)[k][d] = epsilon

\* C2: in the cycle construct, forward, optimizer step, constrain_parameters,
\* forward, ... every scale diagonal entry is >= epsilon at the start of every
\* forward call, the first one after construction included.
C2_ScalePositiveBeforeForward ==
    pc = "forward" => ScalePositive(model, epsilon)

\* C3: after constrain_parameters(epsilon) every matrix of
\* get_covariance_matrix() is symmetric, positive-semidefinite, and has a
\* determinant bounded below by a positive value of epsilon and num_dims,
\* whatever the off-diagonal entries are; whichever the bound, the determinant
\* is positive.
C3_CovarianceValid ==
    Constrained =>
        \A k \in Components(model) :
            LET C == get_covariance_matrix(model)[k] IN
            /\ IsSymmetric(C)
            /\ IsPositiveSemidefinite(C)
            /\ Det(C) > 0

\* C4: constrain_parameters(epsilon) called twice in succession with the same
\* epsilon leaves every learnable parameter as the first call left it.
C4_ConstrainIdempotent ==
    [][last'.op = "constrain_again" => model' = model]_vars

\* a second call in succession, after a first call that repaired an entry
C4_Witness == last.op = "constrain_again" /\ last.repaired

\* C5: get_mixture_family_from_str(name) returns the family whose tag is name
\* when name is one of the five tags, and raises the unknown-family error
\* listing the five tags for every other string.
C5_LookupExact ==
    call.fn = "get_mixture_family_from_str" =>
        IF call.family_name \in FiveTags
        THEN /\ ret.kind = "return"
             /\ ret.value.ty = "MixtureFamily"
             /\ ret.value.value = call.family_name
        ELSE /\ ret.kind = "raise"
             /\ ret.exc = "ValueError"
             /\ ret.family_name = call.family_name
             /\ ListsFiveTags(ret.names)

\* the lookup of a case variant of a tag has failed
C5_Witness ==
    /\ call.fn = "get_mixture_family_from_str"
    /\ call.family_name = "FULL"
    /\ ret.kind = "raise"

\* C6: get_model(family, num_components, num_dims, radius) returns a GmmFull
\* for FULL and a GmmDiagonal for DIAGONAL, with the requested num_components
\* and num_dims and with init_radius equal to radius.
C6_GetModelBuilds ==
    (call.fn = "get_model" /\ call.mixture_family \in {FULL, DIAGONAL}) =>
        /\ ret.kind = "return"
        /\ ret.value.class =
              (IF call.mixture_family = FULL THEN "GmmFull" ELSE "GmmDiagonal")
        /\ ret.value.num_components = call.num_components
        /\ ret.value.num_dims = call.num_dims
        /\ ret.value.init_radius.v = call.radius.v

\* C7: get_model with ISOTROPIC, SHARED_ISOTROPIC or CONSTANT returns no model:
\* it raises the not-implemented error naming the requested family.
C7_UnimplementedFamilies ==
    (call.fn = "get_model"
        /\ call.mixture_family \in {ISOTROPIC, SHARED_ISOTROPIC, CONSTANT_}) =>
        /\ ret.kind = "raise"
        /\ ret.exc = "NotImplementedError"
        /\ ret.family = call.mixture_family.value

\* get_model was asked for an unimplemented family
C7_Witness ==
    /\ call.fn = "get_model"
    /\ call.mixture_family = SHARED_ISOTROPIC
    /\ ret.kind = "raise"

\* C8: get_model given a family name that is not one of the five tags fails
\* with the unknown-family error that carries the list of valid names, and
\* constructs no model.
C8_GetModelUnknownName ==
    (call.fn = "get_model" /\ call.mixture_family.ty = "str"
        /\ call.mixture_family.s \notin FiveTags) =>
        /\ ret.kind = "raise"
        /\ ret.exc = "ValueError"
        /\ ListsFiveTags(ret.names)

\* C9: in every state of a model get_probs() is a vector of num_components
\* fractions, each in (0, 1], that sum to 1; it is computed from the logits,
\* the model stores no probabilities.
C9_ProbsOnSimplex ==
    pc # "registry" =>
        LET p == get_probs(model)
            n == Len(p) IN
        /\ n = model.num_components
        /\ \A k \in 1..n : 0 < p[k].num /\ p[k].num <= p[k].den
        /\ SumTo([k \in 1..n |->
                     p[k].num * ProdTo([j \in 1..n |->
                                           IF j = k THEN 1 ELSE p[j].den], n)],
                 n)
             = ProdTo([j \in 1..n |-> p[j].den], n)
        /\ "probs" \notin DOMAIN model

\* two components with different logits, after an optimizer step
C9_Witness ==
    /\ pc = "forward"
    /\ Constrained
    /\ model.num_components = 2
    /\ model.logits[1] < model.logits[2]

\* C10: get_covariance_matrix() returns, per component, scale_tril[k] times
\* its transpose (GmmFull) and the diagonal matrix of the squares of
\* sigmas_diag[k] (GmmDiagonal), each num_dims x num_dims.
C10_CovarianceOfDataModel ==
    pc # "registry" =>
        LET C == get_covariance_matrix(model) IN
        /\ Len(C) = model.num_components
        /\ \A k \in Components(model) :
              C[k] = [i \in Dims(model) |-> [j \in Dims(model) |->
                        IF model.class = "GmmFull"
                        THEN SumTo([n \in Dims(model) |->
                                       model.scale_tril[k][i][n]
                                       * model.scale_tril[k][j][n]],
                                   model.num_dims)
                        ELSE IF i = j
                        THEN model.sigmas_diag[k][i] * model.sigmas_diag[k][i]
                        ELSE 0]]

\* C11: in every parameter state the component covariance that forward uses
\* to build the mixture equals the covariance get_covariance_matrix() reports:
\* GmmFull.forward takes scale_tril as the factor L of L*L^T, GmmDiagonal.forward
\* uses the covariance get_covariance_matrix materializes.
C11_ForwardUsesReportedCovariance ==
    model # NoModel => forward_covariance(model) = get_covariance_matrix(model)

\* C12: when the caller supplies init_mus to the GmmFull or GmmDiagonal
\* constructor, the means of the constructed model equal the supplied values;
\* only when none are supplied is every entry of the means drawn within
\* [-init_radius, init_radius].
C12_SuppliedMeansKept ==
    call.fn \in {"GmmFull", "GmmDiagonal"} =>
        /\ ret.kind = "return"
        /\ IF call.init_mus # None
           THEN ret.value.mus = call.init_mus.v
           ELSE \A k \in 1..call.num_components : \A d \in 1..call.num_dims :
                   /\ -(call.init_radius.v * Fine) <= ret.value.mus[k][d]
                   /\ ret.value.mus[k][d] <= call.init_radius.v * Fine

ParameterNames(params) == {params[i].name : i \in 1..Len(params)}

\* C13: for every concrete model component_parameters() yields exactly the
\* means and the scale representation (scale_tril or sigmas_diag) and never
\* the mixing logits, mixture_parameters() yields exactly the mixing logits,
\* and the two collections are disjoint.
C13_ParameterCollections ==
    model # NoModel =>
        LET comp == component_parameters(model)
            mix == mixture_parameters(model)
            scale == IF model.class = "GmmFull" THEN "scale_tril"
                     ELSE "sigmas_diag" IN
        /\ Len(comp) = 2
        /\ ParameterNames(comp) = {"mus", scale}
        /\ \A i \in 1..Len(comp) : comp[i].data = model[comp[i].name]
        /\ "logits" \notin ParameterNames(comp)
        /\ mix = <<[name |-> "logits", data |-> model.logits]>>
        /\ ParameterNames(comp) \cap ParameterNames(mix) = {}

\* a GmmDiagonal whose mixing logits the optimizer has moved away from zero
C13_Witness ==
    /\ model.class = "GmmDiagonal"
    /\ last.op = "write"
    /\ model.logits[1] # 0

\* C14: for both GmmFull and GmmDiagonal, forward on a batch of shape
\* (B, T, F), F the model's feature dimensionality, returns a scalar loss and
\* a sample of shape (B, T, num_dims), for every B, T >= 1.
C14_ForwardShapes ==
    (call.fn = "forward"
        /\ Len(call.x_shape) = 3
        /\ call.x_shape[3] = call.self.embed.in_features) =>
        /\ ret.kind = "return"
        /\ ret.value.nll_loss = <<>>
        /\ ret.value.sample =
              <<call.x_shape[1], call.x_shape[2], call.self.num_dims>>

\* C15: a forward call changes no model state: the mixing logits, the means,
\* the scale parameters, the embedding weights, num_components and num_dims
\* have the same values after forward as before it, for GmmFull and
\* GmmDiagonal, whether forward returns or raises.
C15_ForwardFrame ==
    call.fn = "forward" =>
        /\ model.class = call.self.class
        /\ model.logits = call.self.logits
        /\ model.mus = call.self.mus
        /\ ScaleDiagonal(model) = ScaleDiagonal(call.self)
        /\ (model.class = "GmmFull" => model.scale_tril = call.self.scale_tril)
        /\ model.embed.weight = call.self.embed.weight
        /\ model.num_components = call.self.num_components
        /\ model.num_dims = call.self.num_dims
        /\ model = call.self

\* forward has returned on a model whose logits the optimizer has written
C15_Witness ==
    /\ call.fn = "forward"
    /\ ret.kind = "return"
    /\ call.self.logits[1] # 0

\* C20: constrain_parameters changes only scale diagonals: for GmmFull every
\* off-diagonal entry of every scale factor, and for both models the means,
\* the mixing logits, the embedding weights, num_components and num_dims are
\* the same after the call as before; an entry that is already >= epsilon is
\* left unchanged.
C20_ConstrainFrame ==
    call.fn = "constrain_parameters" =>
        /\ model.class = call.self.class
        /\ model.mus = call.self.mus
        /\ model.logits = call.self.logits
        /\ model.embed.weight = call.self.embed.weight
        /\ model.num_components = call.self.num_components
        /\ model.num_dims = call.self.num_dims
        /\ (model.class = "GmmFull" =>
               \A k \in Components(model) : \A i, j \in Dims(model) :
                   i # j => model.scale_tril[k][i][j]
                              = call.self.scale_tril[k][i][j])
        /\ \A k \in Components(model) : \A d \in Dims(model) :
               ScaleDiagonal(call.self)[k][d] >= call.epsilon =>
                   ScaleDiagonal(model)[k][d] = ScaleDiagonal(call.self)[k][d]

\* the call has repaired a diagonal entry of a GmmFull whose factor has a
\* nonzero off-diagonal entry, another diagonal entry being >= epsilon
C20_Witness ==
    /\ call.fn = "constrain_parameters"
    /\ call.self.class = "GmmFull"
    /\ call.self.num_dims = 2
    /\ model # call.self
    /\ call.self.scale_tril[1][2][1] # 0
    /\ \E d \in Dims(model) : call.self.scale_tril[1][d][d] >= call.epsilon

\* the step of the life cycle that is the call constrain_parameters(epsilon)
ConstrainStep == pc = "constrain" /\ pc' = "forward"

\* every diagonal entry of every scale factor has magnitude >= eps
DiagonalLarge(m, eps) ==
    \A k \in Components(m) : \A d \in Dims(m) :
        m.scale_tril[k][d][d] >= eps \/ -m.scale_tril[k][d][d] >= eps

\* every negative diagonal entry is the only nonzero entry of its column
ColumnsClear(m) ==
    \A k \in Components(m) : \A d \in Dims(m) :
        m.scale_tril[k][d][d] < 0 =>
            \A i \in Dims(m) : i # d => m.scale_tril[k][i][d] = 0

\* C19 as the specification states it: the absolute-value step of
\* GmmFull.constrain_parameters loses no information; for every scale factor
\* whose diagonal entries all have magnitude >= epsilon the covariance
\* get_covariance_matrix() reports after the call equals the one it reported
\* before, whatever the signs of the diagonal and the off-diagonal entries.
C19_CovarianceKept ==
    [][(ConstrainStep /\ model.class = "GmmFull"
            /\ DiagonalLarge(model, epsilon)) =>
         get_covariance_matrix(model') = get_covariance_matrix(model)]_vars

\* C19, amended: under the same precondition the diagonal of the reported
\* covariance (the variances) is the same after the call as before, and the
\* whole covariance is the same when every negative diagonal entry is the
\* only nonzero entry of its column; otherwise the covariances between
\* coordinates can change.
C19_VariancesKept ==
    [][(ConstrainStep /\ model.class = "GmmFull"
            /\ DiagonalLarge(model, epsilon)) =>
         /\ \A k \in Components(model) : \A i \in Dims(model) :
               get_covariance_matrix(model')[k][i][i]
                 = get_covariance_matrix(model)[k][i][i]
         /\ ColumnsClear(model) =>
               get_covariance_matrix(model') = get_covariance_matrix(model)]_vars

\* the call has flipped the sign of a diagonal entry of a GmmFull factor with
\* a nonzero entry below the diagonal: every diagonal entry is above epsilon
\* afterwards, so none was clamped
C19_Witness ==
    /\ last.op = "constrain"
    /\ last.repaired
    /\ model.class = "GmmFull"
    /\ model.num_dims = 2
    /\ model.scale_tril[1][2][1] # 0
    /\ model.scale_tril[1][1][2] = 0
    /\ \A d \in Dims(model) : model.scale_tril[1][d][d] > epsilon

\* C16 as the specification states it: a concrete subclass of MixtureModel
\* that does not implement one of the required operations can be constructed,
\* and the contract-violation error is reported at the first invocation of
\* the missing operation.
C16_ErrorAtInvocation ==
    (call.fn = "Subclass" /\ call.invoke \notin call.implemented) =>
        /\ ret.construct.kind = "return"
        /\ ret.invoke.kind = "raise"
        /\ ret.invoke.exc = "NotImplementedError"

\* C16, amended: a subclass of MixtureModel that does not implement every
\* required operation cannot be constructed: instantiation raises TypeError
\* for the missing operations and nothing is invoked on an object; a subclass
\* that implements all four is constructed and its operations return.
C16_ErrorAtConstruction ==
    call.fn = "Subclass" =>
        IF call.implemented # AbstractMethods
        THEN /\ ret.construct.kind = "raise"
             /\ ret.construct.exc = "TypeError"
             /\ ret.construct.missing = AbstractMethods \ call.implemented
             /\ ret.invoke = NotReached
        ELSE /\ ret.construct.kind = "return"
             /\ ret.construct.value.num_components = call.num_components
             /\ ret.invoke.kind = "return"

\* a subclass without forward was instantiated to call forward
C16_Witness ==
    /\ call.fn = "Subclass"
    /\ call.implemented = AbstractMethods \ {"forward"}
    /\ call.invoke = "forward"
    /\ ret.construct.kind = "raise"

\* the logarithm s with x = exp(alpha * s), times |alpha.num[j]| for the
\* first j with alpha.num[j] # 0, for a positive value x returned by
\* Power(p, alpha): a power carries s itself; a number of the grid with
\* logarithm e has s = e / alpha, which is (alpha.den[j] / alpha.num[j]) * e
\* when alpha is rational, and (e[j] / alpha.num[j]) * alpha.den when e is a
\* multiple of alpha.num
SourceLog(x, alpha) ==
    LET j == CHOOSE i \in 1..NumPrimes : alpha.num[i] # 0
        s == IF alpha.num[j] < 0 THEN -1 ELSE 1 IN
    CASE x.kind = "pow" /\ x.alpha = alpha ->
             [i \in 1..NumPrimes |-> s * alpha.num[j] * x.log[i]]
      [] x.kind = "pos" /\ Parallel(alpha.num, alpha.den) ->
             [i \in 1..NumPrimes |-> s * alpha.den[j] * x.e[i]]
      [] x.kind = "pos" /\ Parallel(x.e, alpha.num) ->
             [i \in 1..NumPrimes |-> s * x.e[j] * alpha.den[i]]

\* x <= y for two values of one call of warp_probs, or two probabilities:
\* 0 is the least and inf the greatest; two numbers of the grid compare by
\* their logarithms; exp(alpha * s) and exp(alpha * t) compare as s and t
\* do when alpha > 0, and the other way round when alpha < 0
Leq(x, y) ==
    IF x.kind = "zero" \/ y.kind = "inf" THEN TRUE
    ELSE IF x.kind = "inf" \/ y.kind = "zero" THEN FALSE
    ELSE IF x.kind = "pos" /\ y.kind = "pos"
    THEN LogSign([i \in 1..NumPrimes |-> x.e[i] - y.e[i]]) <= 0
    ELSE LET alpha == IF x.kind = "pow" THEN x.alpha ELSE y.alpha
             s == SourceLog(x, alpha)
             t == SourceLog(y, alpha) IN
         QuotientSign(alpha)
             * LogSign([i \in 1..NumPrimes |-> s[i] - t[i]]) <= 0

\* C17: warp_probs applied to the uniform vector of length n (every entry
\* 1/n) with target value t returns a vector of length n whose every entry
\* equals t, for n in {2, 4, 10} and t in {0.5, 0.75, 0.9}; the output is not
\* renormalized: its entries sum to n*t, which is 1 only when t = 1/n.
C17_UniformToTarget ==
    (call.fn = "warp_probs"
        /\ call.probs = Uniform(Len(call.probs))
        /\ Len(call.probs) \in {2, 4, 10}
        /\ call.target_value \in {Frac(1, 2), Frac(3, 4), Frac(9, 10)}) =>
        /\ ret.kind = "return"
        /\ Len(ret.value) = Len(call.probs)
        /\ \A i \in 1..Len(ret.value) : ret.value[i] = call.target_value
        /\ call.target_value # Frac(1, Len(call.probs)) =>
              \E i \in 1..Len(ret.value) :
                  ret.value[i] # Frac(1, Len(call.probs))

\* the uniform vector of length 10 was warped with target value 0.9
C17_Witness ==
    /\ call.fn = "warp_probs"
    /\ call.probs = Uniform(10)
    /\ call.target_value = Frac(9, 10)
    /\ ret.value[10] = Frac(9, 10)

\* C18 as the specification states it: warp_probs is order-preserving; for
\* every probability vector of length n >= 2 and every target value, below 1
\* or above 1, probs[i] <= probs[j] implies warp(probs)[i] <= warp(probs)[j].
C18_OrderPreserved ==
    call.fn = "warp_probs" =>
        \A i, j \in 1..Len(call.probs) :
            Leq(call.probs[i], call.probs[j]) =>
                Leq(ret.value[i], ret.value[j])

\* C18, amended: warp_probs is order-preserving for every target value in
\* (0, 1]; for a target value above 1 the exponent alpha is negative and the
\* order is reversed: probs[i] <= probs[j] implies
\* warp(probs)[j] <= warp(probs)[i].
C18_OrderByTarget ==
    call.fn = "warp_probs" =>
        \A i, j \in 1..Len(call.probs) :
            Leq(call.probs[i], call.probs[j]) =>
                IF LogSign(Log(call.target_value)) <= 0
                THEN Leq(ret.value[i], ret.value[j])
                ELSE Leq(ret.value[j], ret.value[i])

\* (1/2, 1/4, 1/4, 0) was warped with target value 0.75: the entries keep
\* their strict order
C18_Witness ==
    /\ call.fn = "warp_probs"
    /\ call.target_value = Frac(3, 4)
    /\ Len(call.probs) = 4
    /\ ~Leq(call.probs[1], call.probs[2])
    /\ ~Leq(ret.value[1], ret.value[2])
    /\ ~Leq(ret.value[2], ret.value[4])

\* C21: in every reachable state of a GmmFull model, at construction and
\* after any sequence of optimizer steps and constrain_parameters calls,
\* scale_tril is a num_components x num_dims x num_dims stack in which every
\* component matrix is lower-triangular: every entry strictly above the
\* diagonal is zero.
C21_ScaleTrilLowerTriangular ==
    (model # NoModel /\ model.class = "GmmFull") =>
        /\ Len(model.scale_tril) = model.num_components
        /\ \A k \in Components(model) :
              /\ Len(model.scale_tril[k]) = model.num_dims
              /\ \A i \in Dims(model) :
                    Len(model.scale_tril[k][i]) = model.num_dims
              /\ IsLowerTriangular(model.scale_tril[k])

\* C22: during the hyperparameter search of DimRec.train, a configuration
\* whose clustering-model construction or use fails, in particular the
\* GmmDiagonal construction for model names containing "gmm", is skipped and
\* the search continues with the next configuration: the error does not
\* terminate the search.
C22_FailingConfigurationSkipped ==
    (call.fn = "train" /\ last.op = "try" /\ last.outcome.kind = "raise") =>
        /\ pc \in {"search", "returned"}
        /\ (Contains(call.model_name, "gmm") => last.i > 1)

\* the entry is exactly the whole number n
IsExactly(e, n) ==
    /\ e.err = "exact"
    /\ e.num * n >= 0
    /\ e.num * e.num = n * n * e.den2

\* C23: make_random_cov_matrix(1) returns exactly [[1.0]], and
\* make_random_scale_trils(num_sigmas, num_dims) returns exactly num_sigmas
\* matrices of size num_dims x num_dims, each with every entry above the
\* diagonal equal to zero and every diagonal entry equal to 1.
C23_RandomScaleTrils ==
    /\ (call.fn = "make_random_cov_matrix" /\ call.num_dims = 1) =>
          /\ ret.kind = "return"
          /\ Len(ret.value) = 1
          /\ Len(ret.value[1]) = 1
          /\ IsExactly(ret.value[1][1], 1)
    /\ call.fn = "make_random_scale_trils" =>
          /\ ret.kind = "return"
          /\ Len(ret.value) = call.num_sigmas
          /\ \A s \in 1..call.num_sigmas :
                /\ Len(ret.value[s]) = call.num_dims
                /\ \A i \in 1..call.num_dims :
                      /\ Len(ret.value[s][i]) = call.num_dims
                      /\ IsExactly(ret.value[s][i][i], 1)
                      /\ \A j \in (i + 1)..call.num_dims :
                            IsExactly(ret.value[s][i][j], 0)

\* two 2 x 2 factors were made, with different entries below the diagonal
C23_Witness ==
    /\ call.fn = "make_random_scale_trils"
    /\ call.num_sigmas = 2
    /\ call.num_dims = 2
    /\ ret.kind = "return"
    /\ ~IsExactly(ret.value[1][2][1], 0)
    /\ ret.value[1][2][1] # ret.value[2][2][1]

====
